---- MODULE Spec2Model ----
(***************************************************************************)
(* Model of the selenium-automation crawl services.                        *)
(*                                                                         *)
(* One AutomationTask row lives in the task store.  The REST handlers of   *)
(* runner/views.py and runner/enhanced_views.py change it and enqueue      *)
(* Celery jobs; a worker that takes a job runs run_automation (basic       *)
(* service) or run_enhanced_automation (enhanced service) on its own copy  *)
(* of the row.  The scorer of runner/captcha_detector.py is modelled with  *)
(* exact rational arithmetic (a score is a pair <<numerator, denominator>>)*)
(***************************************************************************)
EXTENDS Integers, Sequences, FiniteSets, TLC

\* ------------------------------------------------------------------ bounds
MaxPages == 3        \* task.max_pages ranges over 0..MaxPages
MaxStarts == 2       \* accepted start/resume requests with restarts
RestartMaxPages == 2 \* task.max_pages with restarts: 0..RestartMaxPages
PoolMaxPages == 1    \* task.max_pages with two workers: 0..PoolMaxPages
MaxFrames == 2       \* iframes of a page whose src matches one type

\* check_all_rules calls in a run of the rule engine alone.
MaxChecks == 3

\* Statements executed in a run of the frontier alone.
MaxFrontierSteps == 4

\* ------------------------------------------------------- program constants
QueueLimit == 100    \* len(urls_to_visit) < 100
LinkLimit == 50      \* list(set(links))[:50]

\* The followable URLs of the crawled site; start_url is the task's.
start_url == "/"
Urls == {"/", "/a", "/b"}
Workers == {"w1", "w2"}
NULL == "NULL"
TS == "TS"

STATUS_CHOICES ==
    {"PENDING", "RUNNING", "CAPTCHA_DETECTED", "COMPLETED", "FAILED",
     "CANCELLED", "PAUSED"}

Terminal == {"COMPLETED", "FAILED", "CANCELLED"}

VARIABLES
    task,            \* the AutomationTask row in the task store
    stats_db,        \* the AutomationStats row of the task, if any
    page_events,     \* number of PageEvent rows; row i is the i-th created
    captcha_events,  \* CaptchaEvent rows, in creation order
    jobs,            \* Celery jobs enqueued and not yet taken, by service
    starts,          \* accepted start/resume requests so far
    budget,          \* start/resume requests the behaviour may accept
    svc,             \* per worker: the service object executing a job
    active_monitors, \* RealTimeMonitor.active_monitors (task ids)
    pool,            \* the workers that take jobs of the task
    scorer,          \* an AdvancedCaptchaDetector on one page
    engine,          \* the MonitoringRules of an AlertManager and its alerts
    threads,         \* threads inside a RealTimeMonitor method
    frontier         \* urls_to_visit and visited_urls of a run on a large site

vars ==
    <<task, stats_db, page_events, captcha_events, jobs, starts, budget,
      svc, active_monitors, pool, scorer, engine, threads, frontier>>

TaskId == "task"

\* ------------------------------------------------------------ sequences
RECURSIVE Perms(_)
Perms(S) ==
    IF S = {} THEN {<<>>}
    ELSE UNION {{<<x>> \o p : p \in Perms(S \ {x})} : x \in S}

Take(s, n) == IF Len(s) <= n THEN s ELSE SubSeq(s, 1, n)

\* ------------------------------------------------- AdvancedCaptchaDetector
\* The challenge types in the iteration order of detection_patterns.
CaptchaTypes ==
    <<"recaptcha_v2", "recaptcha_v3", "hcaptcha", "funcaptcha", "cloudflare",
      "generic_captcha">>

TypeNames == {CaptchaTypes[i] : i \in 1 .. Len(CaptchaTypes)}

\* Per type: the lengths of its 'selectors', 'text_patterns' and
\* 'iframe_patterns' lists and its 'weight' in tenths.
detection_patterns ==
    [recaptcha_v2    |-> [selectors |-> 8, text_patterns |-> 5,
                          iframe_patterns |-> 2, weight |-> 10],
     recaptcha_v3    |-> [selectors |-> 4, text_patterns |-> 2,
                          iframe_patterns |-> 0, weight |-> 8],
     hcaptcha        |-> [selectors |-> 6, text_patterns |-> 3,
                          iframe_patterns |-> 1, weight |-> 10],
     funcaptcha      |-> [selectors |-> 4, text_patterns |-> 2,
                          iframe_patterns |-> 2, weight |-> 9],
     cloudflare      |-> [selectors |-> 4, text_patterns |-> 4,
                          iframe_patterns |-> 1, weight |-> 9],
     generic_captcha |-> [selectors |-> 5, text_patterns |-> 5,
                          iframe_patterns |-> 0, weight |-> 7]]

\* self.confidence_threshold = 0.7, as the rational 7/10.
confidence_threshold == <<7, 10>>

\* Rationals <<n, d>> with d > 0.
RatGeq(a, b) == a[1] * b[2] >= b[1] * a[2]
RatGt(a, b) == a[1] * b[2] > b[1] * a[2]
RatEq(a, b) == a[1] * b[2] = b[1] * a[2]

\* What the driver shows of a page for one type: selector_matches (selectors
\* of the type with at least one element), text_matches (text patterns found
\* in the body text) and iframe_matches (iframes whose src matches one of the
\* type's iframe patterns).
NoSignals == [selectors |-> 0, text |-> 0, iframes |-> 0]

NonZero(n) == IF n = 0 THEN 1 ELSE n

\* _calculate_confidence: each part is added only when its match count is
\* positive, as (matches / len(list)) * 0.4 (or 0.3), and the sum is
\* multiplied by the weight.  The result is num / den with
\* den = 100 * |selectors| * |text_patterns| * |iframe_patterns| (an empty
\* list, which never has a match, counts 1 in den).
SelectorShare == 4
TextShare == 3
IframeShare == 3

\* Variant of _calculate_confidence with the selector and text shares
\* exchanged.
SharesExchanged(p, m) ==
    LET S == NonZero(p.selectors)
        T == NonZero(p.text_patterns)
        F == NonZero(p.iframe_patterns)
        sel == IF m.selectors > 0
               THEN TextShare * m.selectors * T * F ELSE 0
        txt == IF m.text > 0 THEN SelectorShare * m.text * S * F ELSE 0
        ifr == IF m.iframes > 0 THEN IframeShare * m.iframes * S * T ELSE 0
    IN  <<p.weight * (sel + txt + ifr), 100 * S * T * F>>

_calculate_confidence(p, m) ==
    LET S == NonZero(p.selectors)
        T == NonZero(p.text_patterns)
        F == NonZero(p.iframe_patterns)
        sel == IF m.selectors > 0
               THEN SelectorShare * m.selectors * T * F ELSE 0
        txt == IF m.text > 0 THEN TextShare * m.text * S * F ELSE 0
        ifr == IF m.iframes > 0 THEN IframeShare * m.iframes * S * T ELSE 0
    IN  <<p.weight * (sel + txt + ifr), 100 * S * T * F>>

\* detect_captcha: the loop over detection_patterns.items(), folded over the
\* first n types; a type replaces the running result only when its
\* confidence is strictly greater.
RECURSIVE DetectUpTo(_, _)
DetectUpTo(signals, n) ==
    IF n = 0
    THEN [detected |-> FALSE, type |-> "unknown", confidence |-> <<0, 1>>]
    ELSE LET prev == DetectUpTo(signals, n - 1)
             t == CaptchaTypes[n]
             c == _calculate_confidence(detection_patterns[t], signals[t])
         IN  IF RatGt(c, prev.confidence)
             THEN [detected |-> RatGeq(c, confidence_threshold),
                   type |-> t, confidence |-> c]
             ELSE prev

detect_captcha(signals) == DetectUpTo(signals, Len(CaptchaTypes))

\* A detector on a page showing the given signals: detect_captcha has not
\* been called, detection_result is its initial dict.
NewDetector(signals) ==
    [signals |-> signals, called |-> FALSE,
     detection_result |-> DetectUpTo(signals, 0)]

\* The match counts a page can show for one type: at most one per selector
\* and per text pattern, and one per iframe of the page whose src matches.
SignalRange(t) ==
    LET p == detection_patterns[t]
    IN  [selectors : 0 .. p.selectors,
         text : 0 .. p.text_patterns,
         iframes : IF p.iframe_patterns = 0 THEN {0} ELSE 0 .. MaxFrames]

\* A page showing the signals a of the i-th type, b of the j-th type and
\* nothing of the other types.
Snapshot(i, a, j, b) ==
    [t \in TypeNames |->
        IF t = CaptchaTypes[i] THEN a
        ELSE IF t = CaptchaTypes[j] THEN b
        ELSE NoSignals]

\* ------------------------------------------------------------ task store
NewTask(mp) ==
    [status |-> "PENDING", started_at |-> NULL, finished_at |-> NULL,
     error_message |-> "", total_pages_visited |-> 0, total_errors |-> 0,
     max_pages |-> mp]

\* The AutomationStats row of the task: absent (exists = FALSE) until a
\* get_or_create makes it with the field defaults.
NoStats ==
    [exists |-> FALSE, total_requests |-> 0, successful_requests |-> 0,
     failed_requests |-> 0, captcha_detections |-> 0, captcha_solves |-> 0]

get_or_create(s) == [s EXCEPT !.exists = TRUE]

\* A service object: self.task (the worker's copy of the row), self.driver,
\* self.stats and the locals of the run.  session is the Chrome session the
\* run's _build_driver created ("open" until a quit), whether or not it was
\* assigned to self.driver; of a run that has returned only session is kept.  navigated, page_events and
\* fetched_after_hit record what the run did: driver.get calls per URL,
\* PageEvent rows created, and whether a page was fetched after the detector
\* had reported a challenge.  slept: time.sleep was called since the latest
\* driver.get of the run (TRUE before the first); unpaced: a driver.get was
\* called with no time.sleep since the one before.
IdleService ==
    [pc |-> "idle", kind |-> "none",
     status |-> "PENDING", started_at |-> NULL, finished_at |-> NULL,
     error_message |-> "", max_pages |-> 0,
     pages_visited |-> 0, errors |-> 0, captcha_detections |-> 0,
     driver |-> "none", session |-> "none",
     urls_to_visit |-> <<>>, visited_urls |-> {},
     navigated |-> [u \in Urls |-> 0], page_events |-> 0,
     fetched_after_hit |-> FALSE, slept |-> TRUE, unpaced |-> FALSE]

\* ------------------------------------------------------------ the pages
\* The pages the site may serve, by what the detectors see on them: a plain
\* page, a page whose text mentions a verification (three phrases of the
\* basic detector's list, two text patterns of recaptcha_v2, one each of
\* hcaptcha, cloudflare and generic_captcha), and an hCaptcha challenge page.
PageKinds == {"plain", "notice", "challenge"}

PageSignals(page) ==
    [t \in TypeNames |->
        CASE page = "plain" -> NoSignals
          [] page = "notice" ->
                [selectors |-> 0,
                 text |-> CASE t = "recaptcha_v2" -> 2
                            [] t \in {"hcaptcha", "cloudflare",
                                      "generic_captcha"} -> 1
                            [] OTHER -> 0,
                 iframes |-> 0]
          [] OTHER ->
                CASE t = "hcaptcha" ->
                        [selectors |-> 4, text |-> 2, iframes |-> 1]
                  [] t = "recaptcha_v2" ->
                        [selectors |-> 0, text |-> 2, iframes |-> 0]
                  [] t \in {"cloudflare", "generic_captcha"} ->
                        [selectors |-> 0, text |-> 1, iframes |-> 0]
                  [] OTHER -> NoSignals]

\* What SeleniumAutomationService._detect_captcha sees: selectors found of
\* its reCAPTCHA v2, reCAPTCHA v3 and hCaptcha lists, captcha iframes, and
\* text phrases found.
BasicSignals(page) ==
    CASE page = "plain" ->
            [v2 |-> 0, v3 |-> 0, hcaptcha |-> 0, iframes |-> 0, text |-> 0]
      [] page = "notice" ->
            [v2 |-> 0, v3 |-> 0, hcaptcha |-> 0, iframes |-> 0, text |-> 3]
      [] OTHER ->
            [v2 |-> 0, v3 |-> 0, hcaptcha |-> 3, iframes |-> 1, text |-> 2]

\* SeleniumAutomationService._detect_captcha: confidence in tenths; the info
\* is returned only when confidence >= 0.3.
_detect_captcha(b) ==
    LET confidence ==
            3 * b.v2 + 2 * b.v3 + 3 * b.hcaptcha + 2 * b.iframes + 1 * b.text
    IN  confidence >= 3

\* Whether the service's detector reports a challenge on the page.
ScorerDetects(kind, page) ==
    IF kind = "enhanced"
    THEN detect_captcha(PageSignals(page)).detected
    ELSE _detect_captcha(BasicSignals(page))

\* ------------------------------------------------------- MonitoringRule
\* The rules create_default_rules adds, all enabled.
RuleNames ==
    {"task_stuck", "high_error_rate", "captcha_detected", "task_completed"}

\* The tasks and Stats that check_all_rules is called with: a task is its
\* id, its status, and whether it started more than 30 minutes ago; stats is
\* None (exists = FALSE) or a row.
RuleTaskIds == {"task", "other"}

RuleTasks ==
    [id : RuleTaskIds, status : {"RUNNING"}, started_at : {NULL, TS},
     long : BOOLEAN]
    \cup [id : RuleTaskIds,
          status : {"CAPTCHA_DETECTED", "COMPLETED", "FAILED"},
          started_at : {TS}, long : {FALSE}]

RuleStats ==
    {[exists |-> FALSE, total_requests |-> 0, failed_requests |-> 0],
     [exists |-> TRUE, total_requests |-> 10, failed_requests |-> 10],
     [exists |-> TRUE, total_requests |-> 12, failed_requests |-> 6],
     [exists |-> TRUE, total_requests |-> 12, failed_requests |-> 7]}

\* The condition functions of the default rules.
condition(r, t, stats) ==
    CASE r = "task_stuck" ->
            t.status = "RUNNING" /\ t.started_at # NULL /\ t.long
      [] r = "high_error_rate" ->
            /\ stats.exists
            /\ stats.total_requests > 10
            /\ 2 * stats.failed_requests > stats.total_requests
      [] r = "captcha_detected" -> t.status = "CAPTCHA_DETECTED"
      [] OTHER -> t.status = "COMPLETED"

\* Variant of check that does not look at last_triggered.
check_ignoring_last(rule, result, id) ==
    IF rule.enabled /\ result
    THEN [rule |-> [rule EXCEPT !.last_triggered = id], fired |-> TRUE]
    ELSE [rule |-> rule, fired |-> FALSE]

\* MonitoringRule.check on a rule whose condition returned result for the
\* task id: the rule afterwards and whether its action was called.
check(rule, result, id) ==
    IF rule.enabled /\ result /\ rule.last_triggered # id
    THEN [rule |-> [rule EXCEPT !.last_triggered = id], fired |-> TRUE]
    ELSE [rule |-> rule, fired |-> FALSE]

\* An AlertManager after create_default_rules: the rules, and what the
\* model records of its use: alerts[r][id], the alerts of alert_history sent
\* by rule r's action for the task id; calls, the check_all_rules calls so
\* far; last_task, the id of the latest call; streak[r], the times rule r's
\* action was called since the latest change of last_task; suppressed[r],
\* whether in the latest call rule r's condition held and its action was not
\* called.
NewAlertManager ==
    [rules |-> [r \in RuleNames |->
                   [enabled |-> TRUE, last_triggered |-> NULL]],
     alerts |-> [r \in RuleNames |-> [id \in RuleTaskIds |-> 0]],
     calls |-> 0,
     last_task |-> NULL,
     streak |-> [r \in RuleNames |-> 0],
     suppressed |-> [r \in RuleNames |-> FALSE]]

\* AlertManager.check_all_rules(task, stats): rule.check for every rule.
check_all_rules(e, t, stats) ==
    LET out(r) == check(e.rules[r], condition(r, t, stats), t.id)
    IN  [rules |-> [r \in RuleNames |-> out(r).rule],
         alerts |-> [r \in RuleNames |->
                        IF out(r).fired
                        THEN [e.alerts[r] EXCEPT ![t.id] = @ + 1]
                        ELSE e.alerts[r]],
         calls |-> e.calls + 1,
         last_task |-> t.id,
         streak |-> [r \in RuleNames |->
                        (IF e.last_task = t.id THEN e.streak[r] ELSE 0)
                        + (IF out(r).fired THEN 1 ELSE 0)],
         suppressed |-> [r \in RuleNames |->
                            condition(r, t, stats) /\ ~out(r).fired]]

\* ------------------------------------------------------- RealTimeMonitor
\* Threads calling methods of the one RealTimeMonitor.  A thread inside
\* stop_monitoring or update_task_status is between two statements: pc says
\* where, id is the task id of the call.  error: a call of the thread raised;
\* stale: update_task_status wrote to an entry no longer in the table;
\* read: what the latest get_monitoring_data returned.
MonitorThreads == {"t1", "t2"}

IdleThread ==
    [pc |-> "idle", id |-> NULL, error |-> FALSE, stale |-> FALSE,
     read |-> NULL]

\* ------------------------------------------------------------ the links
\* An absolute URL as urlparse sees it: scheme, netloc, the path (a page
\* number) with its extension, the query string and the fragment.  The text
\* of the URL is these parts in this order.
skip_extensions == {".pdf", ".doc", ".docx", ".xls", ".xlsx", ".zip", ".rar"}

skip_patterns == {"#", "javascript:", "mailto:", "tel:"}

Url(netloc, page, ext, query, fragment) ==
    [scheme |-> "http:", netloc |-> netloc, page |-> page, ext |-> ext,
     query |-> query, fragment |-> fragment]

\* A page of the task's site.
SitePage(n) == Url("site", n, "", "", "")

\* url.lower().endswith(ext) for some ext of skip_extensions: the text ends
\* with the path extension only when no query and no fragment follow.
EndsWithSkipExtension(url) ==
    /\ url.fragment = ""
    /\ url.query = ""
    /\ url.ext \in skip_extensions

\* pattern in url.lower() for some pattern of skip_patterns.
ContainsSkipPattern(url) ==
    \/ url.scheme \in skip_patterns
    \/ url.fragment # ""

\* EnhancedSeleniumAutomationService._should_follow_link
_should_follow_link(url, current_domain) ==
    /\ url.netloc = current_domain
    /\ ~EndsWithSkipExtension(url)
    /\ ~ContainsSkipPattern(url)

\* SeleniumAutomationService._extract_links keeps every same-domain link.
SameDomainOnly(url, current_domain) == url.netloc = current_domain

\* The frontier of no run.
NoFrontier ==
    [kind |-> "none", current_url |-> SitePage(0), urls_to_visit |-> <<>>,
     visited_urls |-> {}, loaded |-> FALSE, steps |-> 0, dropped |-> FALSE]

\* ------------------------------------------------------------ initial states
\* A task just created (PENDING, nothing enqueued) with max_pages mp, n
\* start/resume requests to be accepted and the workers P taking its jobs.
InitStore(mp, n, P) ==
    /\ task = NewTask(mp)
    /\ stats_db = NoStats
    /\ page_events = 0
    /\ captcha_events = <<>>
    /\ jobs = [k \in {"basic", "enhanced"} |-> 0]
    /\ starts = 0
    /\ budget = n
    /\ svc = [w \in Workers |-> IdleService]
    /\ active_monitors = {}
    /\ pool = P
    /\ engine = NewAlertManager
    /\ threads = [th \in MonitorThreads |-> IdleThread]

\* No detector has examined a page yet.
InitWith(mp, n, P) ==
    /\ InitStore(mp, n, P)
    /\ scorer = NewDetector(PageSignals("plain"))
    /\ frontier = NoFrontier

\* One accepted start, one worker: a single run of either service.
Init == \E mp \in 0 .. MaxPages : InitWith(mp, 1, {"w1"})

\* Up to MaxStarts accepted starts, one worker: runs and restarts.
InitRestart ==
    \E mp \in 0 .. RestartMaxPages : InitWith(mp, MaxStarts, {"w1"})

\* Up to MaxStarts accepted starts and two workers.
InitPool == \E mp \in 0 .. PoolMaxPages : InitWith(mp, MaxStarts, Workers)

\* A detector about to examine a page that shows signals of at most two
\* types.
InitScorer ==
    /\ InitStore(0, 0, {})
    /\ frontier = NoFrontier
    /\ \E i \in 1 .. Len(CaptchaTypes), j \in 1 .. Len(CaptchaTypes) :
          /\ i < j
          /\ \E a \in SignalRange(CaptchaTypes[i]),
                b \in SignalRange(CaptchaTypes[j]) :
                scorer = NewDetector(Snapshot(i, a, j, b))

\* ------------------------------------------------------------ monitoring.py
\* The module binds the name alert_manager to an AlertManager instance and,
\* further down, to a function: importers get the function, so
\* alert_manager.send_alert and alert_manager.check_all_rules raise
\* AttributeError.
alert_manager == "function"

AlertManagerRaises == alert_manager # "AlertManager"

\* RealTimeMonitor.start_monitoring / stop_monitoring on the dict.
start_monitoring(m, id) == m \cup {id}
stop_monitoring(m, id) == m \ {id}

\* PerformanceMonitor.check_performance: whether it returns any alert.  The
\* error-rate alert is failed/total > 0.3 on the stored Stats; the duration
\* alert needs started_at and finished_at on the worker's copy and more than
\* 60 minutes between them (long: whether that much time has passed).  The
\* memory and CPU alerts read peaks the model does not keep.
check_performance(s, stats, long) ==
    \/ /\ s.started_at # NULL
       /\ s.finished_at # NULL
       /\ long
    \/ /\ stats.total_requests > 0
       /\ 10 * stats.failed_requests > 3 * stats.total_requests

\* AutomationStats.success_rate, as a rational.
success_rate(stats) ==
    IF stats.total_requests = 0 THEN <<0, 1>>
    ELSE <<stats.successful_requests * 100, stats.total_requests>>

\* ------------------------------------------------------------ REST handlers
Enqueue(k) == jobs' = [jobs EXCEPT ![k] = @ + 1]

\* AutomationTaskViewSet.start_enhanced (runner/views.py)
AutomationTaskViewSet_start_enhanced ==
    /\ starts < budget
    /\ IF task.status \in {"PENDING", "FAILED", "CAPTCHA_DETECTED", "PAUSED"}
       THEN /\ task' = [task EXCEPT !.status = "PENDING",
                                    !.started_at = NULL,
                                    !.finished_at = NULL]
            /\ Enqueue("basic")
            /\ starts' = starts + 1
       ELSE UNCHANGED <<task, jobs, starts>>
    /\ UNCHANGED <<stats_db, page_events, captcha_events, svc,
                   active_monitors, pool, budget, scorer, engine, threads, frontier>>

\* EnhancedAutomationTaskViewSet.start_enhanced (runner/enhanced_views.py)
EnhancedAutomationTaskViewSet_start_enhanced ==
    /\ starts < budget
    /\ IF task.status \in {"PENDING", "FAILED", "CAPTCHA_DETECTED"}
       THEN /\ task' = [task EXCEPT !.status = "PENDING",
                                    !.started_at = NULL,
                                    !.finished_at = NULL,
                                    !.error_message = ""]
            /\ Enqueue("enhanced")
            /\ starts' = starts + 1
       ELSE UNCHANGED <<task, jobs, starts>>
    /\ UNCHANGED <<stats_db, page_events, captcha_events, svc,
                   active_monitors, pool, budget, scorer, engine, threads, frontier>>

\* AutomationTaskViewSet.pause
pause ==
    /\ IF task.status # "RUNNING"
       THEN UNCHANGED task
       ELSE task' = [task EXCEPT !.status = "PAUSED"]
    /\ UNCHANGED <<stats_db, page_events, captcha_events, jobs, starts, svc,
                   active_monitors, pool, budget, scorer, engine, threads, frontier>>

\* AutomationTaskViewSet.resume
resume ==
    /\ starts < budget
    /\ IF task.status # "PAUSED"
       THEN UNCHANGED <<task, jobs, starts>>
       ELSE /\ task' = [task EXCEPT !.status = "PENDING"]
            /\ Enqueue("basic")
            /\ starts' = starts + 1
    /\ UNCHANGED <<stats_db, page_events, captcha_events, svc,
                   active_monitors, pool, budget, scorer, engine, threads, frontier>>

\* AutomationTaskViewSet.cancel
cancel ==
    /\ IF task.status \in {"COMPLETED", "FAILED", "CANCELLED"}
       THEN UNCHANGED task
       ELSE task' = [task EXCEPT !.status = "CANCELLED",
                                 !.finished_at = TS]
    /\ UNCHANGED <<stats_db, page_events, captcha_events, jobs, starts, svc,
                   active_monitors, pool, budget, scorer, engine, threads, frontier>>

\* CaptchaEventViewSet.mark_solved on the i-th CaptchaEvent row
mark_solved(i) ==
    /\ i \in 1 .. Len(captcha_events)
    /\ IF captcha_events[i].status = "SOLVED"
       THEN UNCHANGED <<captcha_events, task, stats_db>>
       ELSE /\ captcha_events' =
                   [captcha_events EXCEPT ![i].status = "SOLVED"]
            /\ IF task.status = "CAPTCHA_DETECTED"
               THEN task' = [task EXCEPT !.status = "PAUSED"]
               ELSE UNCHANGED task
            /\ stats_db' =
                   [get_or_create(stats_db) EXCEPT !.captcha_solves = @ + 1]
    /\ UNCHANGED <<page_events, jobs, starts, svc, active_monitors,
                   pool, budget, scorer, engine, threads, frontier>>

\* ------------------------------------------------------------ the services
\* run_automation_task / run_enhanced_automation_task: the worker takes a job,
\* loads the row and constructs the service; run_*_automation then (enhanced:
\* start_monitoring) sets status RUNNING and started_at and saves those two.
Pickup(w, k) ==
    /\ w \in pool
    /\ svc[w].pc = "idle"
    /\ jobs[k] > 0
    /\ jobs' = [jobs EXCEPT ![k] = @ - 1]
    /\ svc' = [svc EXCEPT ![w] =
                  [IdleService EXCEPT !.pc = "build", !.kind = k,
                                      !.status = "RUNNING",
                                      !.started_at = TS,
                                      !.finished_at = task.finished_at,
                                      !.error_message = task.error_message,
                                      !.max_pages = task.max_pages]]
    /\ task' = [task EXCEPT !.status = "RUNNING", !.started_at = TS]
    /\ active_monitors' =
           IF k = "enhanced" THEN start_monitoring(active_monitors, TaskId)
           ELSE active_monitors
    /\ UNCHANGED <<stats_db, page_events, captcha_events, starts, pool,
                   budget, scorer, engine, threads, frontier>>

\* self.driver = self._build_driver(); urls_to_visit = [start_url];
\* visited_urls = set().  _build_driver re-raises what it catches: the
\* failure of webdriver.Chrome(...) itself (no session), or of one of the
\* calls that configure the session it has created (set_page_load_timeout,
\* implicitly_wait, execute_script, _log), in which case self.driver stays
\* None.
BuildOutcomes == {"built", "no_session", "not_configured"}

BuildDriver(w) ==
    /\ svc[w].pc = "build"
    /\ \E outcome \in BuildOutcomes :
          svc' = [svc EXCEPT ![w] =
                    CASE outcome = "built" ->
                            [@ EXCEPT !.pc = "loop", !.driver = "open",
                                      !.session = "open",
                                      !.urls_to_visit = <<start_url>>,
                                      !.visited_urls = {}]
                      [] outcome = "no_session" ->
                            [@ EXCEPT !.pc = "except"]
                      [] OTHER ->
                            [@ EXCEPT !.pc = "except", !.session = "open"]]
    /\ UNCHANGED <<task, stats_db, page_events, captcha_events, jobs, starts,
                   active_monitors, pool, budget, scorer, engine, threads, frontier>>

\* Variant of the loop condition without the page limit.
LoopConditionNoLimit(s) == s.urls_to_visit # <<>>

\* while urls_to_visit and self.stats['pages_visited'] < self.task.max_pages
LoopCondition(s) ==
    /\ s.urls_to_visit # <<>>
    /\ s.pages_visited < s.max_pages

\* Variant of the visited check that never skips.
NeverVisited(s, url) == FALSE

\* if current_url in visited_urls: continue
AlreadyVisited(s, url) == url \in s.visited_urls

\* The lists _extract_links may return: list(set(links))[:50], the distinct
\* followable links of the page in the order the set yields them.
LinkLists == UNION {Perms(S) : S \in SUBSET Urls}

_extract_links(found) == Take(found, LinkLimit)

\* Variant of the test without the limit on the queue.
AcceptsWhenFull(queue, visited, link) == link \notin visited

\* if link not in visited_urls and len(urls_to_visit) < 100
Accepts(queue, visited, link) ==
    link \notin visited /\ Len(queue) < QueueLimit

\* for link in new_links:
\*     if link not in visited_urls and len(urls_to_visit) < 100: append
RECURSIVE AppendLinks(_, _, _)
AppendLinks(queue, visited, links) ==
    IF links = <<>> THEN queue
    ELSE AppendLinks(
             IF Accepts(queue, visited, Head(links))
             THEN Append(queue, Head(links)) ELSE queue,
             visited, Tail(links))

\* current_url = urls_to_visit.pop(0); visited_urls.add(current_url);
\* self.driver.get(current_url)
Navigate(s) ==
    LET url == Head(s.urls_to_visit)
    IN  [s EXCEPT !.urls_to_visit = Tail(@),
                  !.visited_urls = @ \cup {url},
                  !.navigated = [@ EXCEPT ![url] = @ + 1],
                  !.fetched_after_hit = @ \/ s.captcha_detections > 0,
                  !.unpaced = @ \/ ~s.slept,
                  !.slept = FALSE]

\* The popped URL was visited before: continue.
SkipVisited(w) ==
    /\ svc[w].pc = "loop"
    /\ LoopCondition(svc[w])
    /\ AlreadyVisited(svc[w], Head(svc[w].urls_to_visit))
    /\ svc' = [svc EXCEPT ![w].urls_to_visit = Tail(@)]
    /\ UNCHANGED <<task, stats_db, page_events, captcha_events, jobs, starts,
                   active_monitors, pool, budget, scorer, engine, threads, frontier>>

\* driver.get raises TimeoutException or WebDriverException:
\* self.stats['errors'] += 1; continue.
FetchFailed(w) ==
    /\ svc[w].pc = "loop"
    /\ LoopCondition(svc[w])
    /\ ~AlreadyVisited(svc[w], Head(svc[w].urls_to_visit))
    /\ svc' = [svc EXCEPT ![w] = [Navigate(@) EXCEPT !.errors = @ + 1]]
    /\ UNCHANGED <<task, stats_db, page_events, captcha_events, jobs, starts,
                   active_monitors, pool, budget, scorer, engine, threads, frontier>>

\* The page loads (time.sleep, pages_visited += 1) and _create_page_event
\* returns None (it catches its own exception): self.stats['errors'] += 1;
\* continue.
PageEventFailed(w) ==
    /\ svc[w].pc = "loop"
    /\ LoopCondition(svc[w])
    /\ ~AlreadyVisited(svc[w], Head(svc[w].urls_to_visit))
    /\ svc' = [svc EXCEPT ![w] =
                  [Navigate(@) EXCEPT !.slept = TRUE,
                                      !.pages_visited = @ + 1,
                                      !.errors = @ + 1]]
    /\ UNCHANGED <<task, stats_db, page_events, captcha_events, jobs, starts,
                   active_monitors, pool, budget, scorer, engine, threads, frontier>>

\* _handle_captcha_detection once the detector has reported a challenge:
\* the CaptchaEvent is created, captcha_detections += 1, the worker's copy
\* gets status CAPTCHA_DETECTED and finished_at, and both are saved.  The
\* enhanced service then calls alert_manager.send_alert inside the try: when
\* that raises, the except branch returns False.
HandleCaptcha(s) ==
    [svc |-> [s EXCEPT !.captcha_detections = @ + 1,
                       !.status = "CAPTCHA_DETECTED",
                       !.finished_at = TS],
     returned |-> ~(s.kind = "enhanced" /\ AlertManagerRaises)]

\* The rest of an iteration after the CAPTCHA check did not break: the link
\* extraction and, in the enhanced service, update_task_status,
\* get_or_create(Stats) and check_performance, whose alerts go to
\* alert_manager.send_alert; an exception there is caught by the loop's
\* except Exception: self.stats['errors'] += 1; continue.
RestOfIteration(s, stats, found, long) ==
    LET s1 == IF s.pages_visited < s.max_pages
              THEN [s EXCEPT !.urls_to_visit =
                       AppendLinks(@, s.visited_urls, _extract_links(found))]
              ELSE s
    IN  IF s.kind = "enhanced"
        THEN [svc |-> IF check_performance(s1, get_or_create(stats), long)
                         /\ AlertManagerRaises
                      THEN [s1 EXCEPT !.errors = @ + 1]
                      ELSE s1,
              stats |-> get_or_create(stats)]
        ELSE [svc |-> s1, stats |-> stats]

\* One iteration in which the page loads and its PageEvent is created.
VisitPage(w) ==
    /\ svc[w].pc = "loop"
    /\ LoopCondition(svc[w])
    /\ ~AlreadyVisited(svc[w], Head(svc[w].urls_to_visit))
    /\ \E page \in PageKinds,
          found \in IF svc[w].pages_visited + 1 < svc[w].max_pages
                    THEN LinkLists ELSE {<<>>},
          long \in IF svc[w].kind = "enhanced" THEN BOOLEAN ELSE {FALSE} :
          LET s1 == [Navigate(svc[w]) EXCEPT !.slept = TRUE,
                                             !.pages_visited = @ + 1,
                                             !.page_events = @ + 1]
              events == page_events + 1
              hit == ScorerDetects(s1.kind, page)
              h == HandleCaptcha(s1)
              s2 == IF hit THEN h.svc ELSE s1
              rest == RestOfIteration(s2, stats_db, found, long)
          IN  /\ page_events' = events
              /\ IF hit
                 THEN /\ captcha_events' =
                            Append(captcha_events,
                                   [page_event |-> events,
                                    status |-> "DETECTED"])
                      /\ task' = [task EXCEPT !.status = "CAPTCHA_DETECTED",
                                               !.finished_at = TS]
                 ELSE UNCHANGED <<captcha_events, task>>
              /\ IF hit /\ h.returned
                 THEN /\ svc' = [svc EXCEPT ![w] =
                                    [h.svc EXCEPT !.pc = "finish"]]
                      /\ UNCHANGED stats_db
                 ELSE /\ svc' = [svc EXCEPT ![w] = rest.svc]
                      /\ stats_db' = rest.stats
    /\ UNCHANGED <<jobs, starts, active_monitors, pool, budget, scorer, engine, threads, frontier>>

\* After the loop: the final status, the save of status, finished_at,
\* total_pages_visited and total_errors, and the Stats row.  A negative
\* successful_requests is rejected by a store that enforces the
\* PositiveIntegerField CHECK (stats.save() raises) and stored by one that
\* does not (enforced: which of the two the store does).
FinalStats(s, stats) ==
    [get_or_create(stats) EXCEPT
        !.total_requests = s.pages_visited,
        !.successful_requests = s.pages_visited - s.errors,
        !.failed_requests = s.errors,
        !.captcha_detections = s.captcha_detections]

\* Variant of the final status that leaves the status as it is.
FinalStatusKept(s) == s

FinalStatus(s) ==
    IF s.status # "CAPTCHA_DETECTED"
    THEN [s EXCEPT !.status = "COMPLETED", !.finished_at = TS]
    ELSE s

FinishRun(w) ==
    /\ \/ svc[w].pc = "finish"
       \/ svc[w].pc = "loop" /\ ~LoopCondition(svc[w])
    /\ \E enforced \in BOOLEAN :
       LET s1 == FinalStatus(svc[w])
           row == FinalStats(s1, stats_db)
           saved == row.successful_requests >= 0 \/ ~enforced
       IN  /\ task' = [task EXCEPT !.status = s1.status,
                                   !.finished_at = s1.finished_at,
                                   !.total_pages_visited = s1.pages_visited,
                                   !.total_errors = s1.errors]
           /\ stats_db' = IF saved THEN row ELSE get_or_create(stats_db)
           /\ svc' = [svc EXCEPT ![w] =
                         [s1 EXCEPT !.pc =
                             IF ~saved THEN "except"
                             ELSE IF s1.kind = "enhanced" THEN "rules"
                             ELSE "finally"]]
    /\ UNCHANGED <<page_events, captcha_events, jobs, starts,
                   active_monitors, pool, budget, scorer, engine, threads, frontier>>

\* Enhanced service: alert_manager.check_all_rules(self.task, stats), then
\* real_time_monitor.stop_monitoring.
CheckAllRules(w) ==
    /\ svc[w].pc = "rules"
    /\ IF AlertManagerRaises
       THEN /\ svc' = [svc EXCEPT ![w].pc = "except"]
            /\ UNCHANGED active_monitors
       ELSE /\ svc' = [svc EXCEPT ![w].pc = "finally"]
            /\ active_monitors' = stop_monitoring(active_monitors, TaskId)
    /\ UNCHANGED <<task, stats_db, page_events, captcha_events, jobs, starts,
                   pool, budget, scorer, engine, threads, frontier>>

\* except Exception as e: status FAILED, error_message, finished_at, saved;
\* the enhanced service also stops the monitoring.
HandleException(w) ==
    /\ svc[w].pc = "except"
    /\ svc' = [svc EXCEPT ![w] = [@ EXCEPT !.pc = "finally",
                                           !.status = "FAILED",
                                           !.error_message = "error",
                                           !.finished_at = TS]]
    /\ task' = [task EXCEPT !.status = "FAILED",
                            !.error_message = "error",
                            !.finished_at = TS]
    /\ active_monitors' =
           IF svc[w].kind = "enhanced"
           THEN stop_monitoring(active_monitors, TaskId)
           ELSE active_monitors
    /\ UNCHANGED <<stats_db, page_events, captcha_events, jobs, starts,
                   pool, budget, scorer, engine, threads, frontier>>

\* finally: if self.driver: self.driver.quit().  The run returns and the
\* service object is dropped; the worker is free for the next job.
Finally(w) ==
    /\ svc[w].pc = "finally"
    /\ svc' = [svc EXCEPT ![w] =
                  [IdleService EXCEPT !.session =
                      IF svc[w].driver # "none" THEN "quit"
                      ELSE svc[w].session]]
    /\ UNCHANGED <<task, stats_db, page_events, captcha_events, jobs, starts,
                   active_monitors, pool, budget, scorer, engine, threads, frontier>>

MarkSolved == \E i \in 1 .. Len(captcha_events) : mark_solved(i)

Take_job == \E w \in Workers, k \in {"basic", "enhanced"} : Pickup(w, k)

Build == \E w \in Workers : BuildDriver(w)

Skip == \E w \in Workers : SkipVisited(w)

FetchError == \E w \in Workers : FetchFailed(w)

EventError == \E w \in Workers : PageEventFailed(w)

Visit == \E w \in Workers : VisitPage(w)

Finish == \E w \in Workers : FinishRun(w)

Rules == \E w \in Workers : CheckAllRules(w)

Failure == \E w \in Workers : HandleException(w)

Release == \E w \in Workers : Finally(w)

\* Every step but the skip of an already visited URL, which needs a third
\* page (two pages must have queued the same link).
NextShort ==
    \/ AutomationTaskViewSet_start_enhanced
    \/ EnhancedAutomationTaskViewSet_start_enhanced
    \/ pause
    \/ resume
    \/ cancel
    \/ MarkSolved
    \/ Take_job
    \/ Build
    \/ FetchError
    \/ EventError
    \/ Visit
    \/ Finish
    \/ Rules
    \/ Failure
    \/ Release

Next == NextShort \/ Skip

\* detect_captcha() on the detector's page.
Detect ==
    /\ ~scorer.called
    /\ scorer' = [scorer EXCEPT !.called = TRUE,
                                !.detection_result = detect_captcha(scorer.signals)]
    /\ UNCHANGED <<task, stats_db, page_events, captcha_events, jobs, starts,
                   budget, svc, active_monitors, pool, engine, threads, frontier>>

NextScorer == Detect

Spec == Init /\ [][Next]_vars

SpecScorer == InitScorer /\ [][NextScorer]_vars

\* A worker that has taken a job keeps executing its run: every statement of
\* the run returns, so the next step of the run is eventually taken.
RunStep ==
    \/ Build
    \/ Skip
    \/ FetchError
    \/ EventError
    \/ Visit
    \/ Finish
    \/ Rules
    \/ Failure
    \/ Release

SpecLive == Init /\ [][Next]_vars /\ WF_vars(RunStep)

SpecRestart == InitRestart /\ [][NextShort]_vars

SpecPool == InitPool /\ [][NextShort]_vars

\* ------------------------------------------------- the alert rules alone
\* What the rule engine and the monitor table leave alone.
crawl_vars ==
    <<task, stats_db, page_events, captcha_events, jobs, starts, budget, svc,
      pool, scorer, frontier>>

InitRules == InitWith(0, 0, {})

\* One call of AlertManager.check_all_rules, on any task and stats.
CheckRules ==
    /\ engine.calls < MaxChecks
    /\ \E t \in RuleTasks, stats \in RuleStats :
          engine' = check_all_rules(engine, t, stats)
    /\ UNCHANGED <<crawl_vars, active_monitors, threads>>

NextRules == CheckRules

SpecRules == InitRules /\ [][NextRules]_vars

\* --------------------------------------------- the monitor table alone
\* The methods of RealTimeMonitor called by several threads.  The table is
\* a dict without a lock: a thread can be preempted between two statements
\* of a method, so each statement that reads or writes the dict is a step.
MonitorIds == {"task", "other"}

InitMonitor == InitWith(0, 0, {})

\* start_monitoring: self.active_monitors[id] = {...}, one store.
MonitorStart(th, id) ==
    /\ threads[th].pc = "idle"
    /\ active_monitors' = start_monitoring(active_monitors, id)
    /\ UNCHANGED <<crawl_vars, engine, threads, frontier>>

\* stop_monitoring: if task_id in self.active_monitors
MonitorStopTest(th, id) ==
    /\ threads[th].pc = "idle"
    /\ threads' = [threads EXCEPT ![th].id = id,
                                  ![th].pc = IF id \in active_monitors
                                             THEN "stop_del" ELSE "idle"]
    /\ UNCHANGED <<crawl_vars, engine, active_monitors>>

\* stop_monitoring: del self.active_monitors[task_id]; KeyError when the
\* key is gone.
MonitorStopDel(th) ==
    /\ threads[th].pc = "stop_del"
    /\ active_monitors' = stop_monitoring(active_monitors, threads[th].id)
    /\ threads' = [threads EXCEPT
                      ![th].pc = "idle",
                      ![th].error = @ \/ threads[th].id \notin active_monitors]
    /\ UNCHANGED <<crawl_vars, engine>>

\* update_task_status: if task_id in self.active_monitors
MonitorUpdateTest(th, id) ==
    /\ threads[th].pc = "idle"
    /\ threads' = [threads EXCEPT ![th].id = id,
                                  ![th].pc = IF id \in active_monitors
                                             THEN "update_get" ELSE "idle"]
    /\ UNCHANGED <<crawl_vars, engine, active_monitors>>

\* update_task_status: monitor = self.active_monitors[task_id]; KeyError
\* when the key is gone.
MonitorUpdateGet(th) ==
    /\ threads[th].pc = "update_get"
    /\ threads' = [threads EXCEPT
                      ![th].pc = IF threads[th].id \in active_monitors
                                 THEN "update_write" ELSE "idle",
                      ![th].error = @ \/ threads[th].id \notin active_monitors]
    /\ UNCHANGED <<crawl_vars, engine, active_monitors>>

\* update_task_status: the writes to monitor['last_update'] and
\* monitor['status_history'], on the entry fetched before; stale when the
\* key is no longer in the table.
MonitorUpdateWrite(th) ==
    /\ threads[th].pc = "update_write"
    /\ threads' = [threads EXCEPT
                      ![th].pc = "idle",
                      ![th].stale = @ \/ threads[th].id \notin active_monitors]
    /\ UNCHANGED <<crawl_vars, engine, active_monitors>>

\* get_monitoring_data: self.active_monitors.get(task_id)
MonitorRead(th, id) ==
    /\ threads[th].pc = "idle"
    /\ threads' = [threads EXCEPT ![th].id = id,
                                  ![th].read = IF id \in active_monitors
                                               THEN "entry"
                                               ELSE "not monitored"]
    /\ UNCHANGED <<crawl_vars, engine, active_monitors>>

NextMonitor ==
    \/ \E th \in MonitorThreads, id \in MonitorIds : MonitorStart(th, id)
    \/ \E th \in MonitorThreads, id \in MonitorIds : MonitorStopTest(th, id)
    \/ \E th \in MonitorThreads : MonitorStopDel(th)
    \/ \E th \in MonitorThreads, id \in MonitorIds : MonitorUpdateTest(th, id)
    \/ \E th \in MonitorThreads : MonitorUpdateGet(th)
    \/ \E th \in MonitorThreads : MonitorUpdateWrite(th)
    \/ \E th \in MonitorThreads, id \in MonitorIds : MonitorRead(th, id)

SpecMonitor == InitMonitor /\ [][NextMonitor]_vars

\* ------------------------------------------------- the frontier alone
\* The queue of a run on a site with many pages: the statements of the loop
\* that pop urls_to_visit and append the links of the loaded page, for
\* either service (kind), without the fetch itself.  steps counts the
\* statements executed; dropped says whether the latest append loop left
\* out an unvisited link because the queue was full.
InitialPending == {0, QueueLimit - 1}

\* The hrefs of the <a> elements a page can show, made absolute.
Anchors ==
    {SitePage(QueueLimit + 1), SitePage(QueueLimit + 2), SitePage(0),
     Url("other", QueueLimit + 1, "", "", ""),
     Url("site", QueueLimit + 3, ".pdf", "", ""),
     Url("site", QueueLimit + 3, ".pdf", "?download=1", ""),
     Url("site", QueueLimit + 1, "", "", "#top"),
     [Url("", 0, "", "", "") EXCEPT !.scheme = "mailto:"]}

\* list(set(links)): the links of a page without duplicates, in any order.
AnchorLists ==
    ({<<>>} \cup {<<a>> : a \in Anchors}
            \cup {<<a, b>> : a \in Anchors, b \in Anchors})
        \ {<<a, a>> : a \in Anchors}

\* The run has loaded the start page and holds n pending pages of the site.
InitFrontier ==
    /\ InitStore(0, 0, {})
    /\ scorer = NewDetector(PageSignals("plain"))
    /\ \E kind \in {"basic", "enhanced"}, n \in InitialPending :
          frontier = [kind |-> kind,
                      current_url |-> SitePage(0),
                      urls_to_visit |-> [i \in 1 .. n |-> SitePage(i)],
                      visited_urls |-> {SitePage(0)},
                      loaded |-> TRUE, steps |-> 0, dropped |-> FALSE]

\* new_links = self._extract_links(current_url) and the append loop.
FrontierPush ==
    /\ frontier.loaded
    /\ frontier.steps < MaxFrontierSteps
    /\ \E found \in AnchorLists :
          LET current_domain == frontier.current_url.netloc
              keep(url) == IF frontier.kind = "enhanced"
                           THEN _should_follow_link(url, current_domain)
                           ELSE SameDomainOnly(url, current_domain)
              new_links == _extract_links(SelectSeq(found, keep))
              queue == AppendLinks(frontier.urls_to_visit,
                                   frontier.visited_urls, new_links)
              unvisited == {i \in 1 .. Len(new_links) :
                               new_links[i] \notin frontier.visited_urls}
          IN  frontier' =
                  [frontier EXCEPT
                      !.urls_to_visit = queue,
                      !.loaded = FALSE,
                      !.steps = @ + 1,
                      !.dropped = Len(queue) - Len(frontier.urls_to_visit)
                                     < Cardinality(unvisited)]
    /\ UNCHANGED <<task, stats_db, page_events, captcha_events, jobs, starts,
                   budget, svc, active_monitors, pool, scorer, engine, threads>>

\* current_url = urls_to_visit.pop(0); a visited URL is skipped, any other
\* is added to visited_urls and loaded.
FrontierPop ==
    /\ frontier.kind # "none"
    /\ frontier.urls_to_visit # <<>>
    /\ frontier.steps < MaxFrontierSteps
    /\ frontier' =
          [frontier EXCEPT
              !.current_url = Head(frontier.urls_to_visit),
              !.urls_to_visit = Tail(frontier.urls_to_visit),
              !.visited_urls = @ \cup {Head(frontier.urls_to_visit)},
              !.loaded = Head(frontier.urls_to_visit) \notin frontier.visited_urls,
              !.steps = @ + 1,
              !.dropped = FALSE]
    /\ UNCHANGED <<task, stats_db, page_events, captcha_events, jobs, starts,
                   budget, svc, active_monitors, pool, scorer, engine, threads>>

NextFrontier == FrontierPush \/ FrontierPop

SpecFrontier == InitFrontier /\ [][NextFrontier]_vars

\* ================================================================ properties
\* Rational arithmetic for the stated formulas.
RECURSIVE GCD(_, _)
GCD(x, y) == IF y = 0 THEN x ELSE GCD(y, x % y)

Abs(x) == IF x < 0 THEN -x ELSE x

\* a in lowest terms.
Lowest(a) ==
    LET g == GCD(Abs(a[1]), a[2]) IN <<a[1] \div g, a[2] \div g>>

RatAdd(a, b) == Lowest(<<a[1] * b[2] + b[1] * a[2], a[2] * b[2]>>)
RatMul(a, b) == Lowest(<<a[1] * b[1], a[2] * b[2]>>)
Ratio(found, checked) == IF checked = 0 THEN <<0, 1>> ELSE <<found, checked>>

Executing == {w \in Workers : svc[w].pc # "idle"}

\* driver.get calls of the run of s.
RECURSIVE Total(_, _)
Total(f, S) ==
    IF S = {} THEN 0
    ELSE LET x == CHOOSE y \in S : TRUE IN f[x] + Total(f, S \ {x})

Fetches(s) == Total(s.navigated, Urls)

\* ------------------------------------------------------------------- C1
\* C1: in every state of a run of either service the run's pages_visited is
\* at most the task's max_pages, and so is the stored total_pages_visited,
\* also with max_pages = 0, fetch failures and skipped duplicates.
C1_PagesWithinMax ==
    /\ \A w \in Workers : svc[w].pages_visited <= svc[w].max_pages
    /\ task.total_pages_visited <= task.max_pages

\* A run that has visited max_pages pages, with an error on the way and URLs
\* still queued: only the page limit ends the loop.
C1_Witness ==
    \E w \in Workers :
        /\ svc[w].pc = "loop"
        /\ svc[w].max_pages > 0
        /\ svc[w].pages_visited = svc[w].max_pages
        /\ svc[w].errors > 0
        /\ svc[w].urls_to_visit # <<>>

\* ------------------------------------------------------------------- C2
\* C2: once the task's status is COMPLETED, FAILED or CANCELLED no step (API
\* start/restart, pause, resume, cancel, mark-solved, or a worker taking a
\* job) changes the status.
C2_TerminalIsFinal ==
    [][task.status \in Terminal => task'.status = task.status]_vars

\* ------------------------------------------------------------------- C3
\* C3: a start/restart is accepted only in PENDING, FAILED, CAPTCHA_DETECTED
\* or PAUSED; accepted, it leaves the task PENDING with started_at,
\* finished_at and error_message cleared and one more job enqueued; rejected,
\* it changes no task field and enqueues nothing.
C3_StartClearsAndEnqueues ==
    [][(AutomationTaskViewSet_start_enhanced
        \/ EnhancedAutomationTaskViewSet_start_enhanced)
       => IF starts' = starts + 1
          THEN /\ task.status \in {"PENDING", "FAILED", "CAPTCHA_DETECTED",
                                   "PAUSED"}
               /\ task'.status = "PENDING"
               /\ task'.started_at = NULL
               /\ task'.finished_at = NULL
               /\ task'.error_message = ""
               /\ jobs'["basic"] + jobs'["enhanced"]
                      = jobs["basic"] + jobs["enhanced"] + 1
          ELSE /\ task' = task
               /\ jobs' = jobs]_vars

\* ------------------------------------------------------------------- C4
\* C4: within one run no URL is navigated to more than once, whatever links
\* the visited pages return and however often they reappear.
C4_NoUrlTwice ==
    \A w \in Workers : \A u \in Urls : svc[w].navigated[u] <= 1

\* The next URL of the queue has been navigated to in this run: a link to it
\* was queued twice before its visit.
C4_Witness ==
    \E w \in Workers :
        /\ svc[w].pc = "loop"
        /\ LoopCondition(svc[w])
        /\ Head(svc[w].urls_to_visit) \in svc[w].visited_urls
        /\ svc[w].navigated[Head(svc[w].urls_to_visit)] = 1

\* ------------------------------------------------------------------- C5
\* C5: the Stats row written by a run has 0 <= successful_requests <=
\* total_requests, and its success_rate is successful/total*100 (0 when total
\* is 0) and lies in [0, 100].
C5_SuccessRateInRange ==
    stats_db.exists =>
        /\ 0 <= stats_db.successful_requests
        /\ stats_db.successful_requests <= stats_db.total_requests
        /\ RatEq(success_rate(stats_db),
                 IF stats_db.total_requests = 0 THEN <<0, 1>>
                 ELSE RatMul(<<stats_db.successful_requests,
                               stats_db.total_requests>>, <<100, 1>>))
        /\ RatGeq(success_rate(stats_db), <<0, 1>>)
        /\ RatGeq(<<100, 1>>, success_rate(stats_db))

\* ------------------------------------------------------------------- C6
\* The stated score of a type: weight * (0.4 * selector_ratio
\* + 0.3 * text_ratio + 0.3 * frame_ratio), each ratio matches found over
\* patterns checked and 0 for an empty pattern list.
StatedScore(p, m) ==
    RatMul(<<p.weight, 10>>,
           RatAdd(RatMul(<<4, 10>>, Ratio(m.selectors, p.selectors)),
                  RatAdd(RatMul(<<3, 10>>, Ratio(m.text, p.text_patterns)),
                         RatMul(<<3, 10>>,
                                Ratio(m.iframes, p.iframe_patterns)))))

\* C6: for each type _calculate_confidence is the stated score, and
\* detect_captcha reports detected exactly when the maximum of the scores
\* over all types is at least 0.7; at weight 1.0 the ratios 2/2, 1/3, 0/0
\* score 0.5 and the ratios 2/2, 3/3, 1/1 score 1.0.
C6_ScoreAndThreshold ==
    scorer.called =>
        LET score(t) == StatedScore(detection_patterns[t], scorer.signals[t])
            best == CHOOSE t \in TypeNames :
                        \A u \in TypeNames : RatGeq(score(t), score(u))
        IN  /\ \A t \in TypeNames :
                  RatEq(_calculate_confidence(detection_patterns[t],
                                              scorer.signals[t]),
                        score(t))
            /\ scorer.detection_result.detected
                  <=> RatGeq(score(best), <<7, 10>>)
            /\ RatEq(_calculate_confidence(
                         [selectors |-> 2, text_patterns |-> 3,
                          iframe_patterns |-> 0, weight |-> 10],
                         [selectors |-> 2, text |-> 1, iframes |-> 0]),
                     <<5, 10>>)
            /\ RatEq(_calculate_confidence(
                         [selectors |-> 2, text_patterns |-> 3,
                          iframe_patterns |-> 1, weight |-> 10],
                         [selectors |-> 2, text |-> 3, iframes |-> 1]),
                     <<10, 10>>)

\* detect_captcha has returned detected for a page whose best score is
\* exactly the threshold.
C6_Witness ==
    /\ scorer.called
    /\ scorer.detection_result.detected
    /\ RatEq(scorer.detection_result.confidence, <<7, 10>>)

\* ------------------------------------------------------------------- C7
\* C7: after the detector has reported a challenge the run fetches no further
\* URL, and it ends with status CAPTCHA_DETECTED.
C7_DetectionHaltsRun ==
    \A w \in Workers :
        /\ ~svc[w].fetched_after_hit
        /\ (svc[w].pc = "finally" /\ svc[w].captcha_detections > 0)
              => svc[w].status = "CAPTCHA_DETECTED"

\* ------------------------------------------------------------------- C8
\* C8: once a task that a worker is executing is CANCELLED, the status stays
\* CANCELLED: the worker does not overwrite it.
C8_CancelledStays ==
    [][(task.status = "CANCELLED" /\ Executing # {})
       => task'.status = "CANCELLED"]_vars

\* ------------------------------------------------------------------- C9
\* C9: at most one worker executes the task at any time.
C9_SingleExecutor == Cardinality(Executing) <= 1

\* ------------------------------------------------------------------ C10
\* C10: a run in which a fetch failed and no challenge was detected still
\* ends COMPLETED.
C10_FetchErrorStillCompletes ==
    \A w \in Workers :
        (/\ svc[w].pc = "finally"
         /\ svc[w].driver = "open"
         /\ Fetches(svc[w]) > svc[w].pages_visited
         /\ svc[w].captcha_detections = 0)
            => svc[w].status = "COMPLETED"

\* ------------------------------------------------------------------ C11
\* Exceptions of the run of s that the loop's except Exception caught: the
\* errors counted that are neither a failed fetch nor a page event that
\* could not be created.
CaughtInLoop(s) ==
    s.errors - (Fetches(s) - s.pages_visited)
             - (s.pages_visited - s.page_events)

\* C11: an exception raised in the loop that is not a fetch error leaves the
\* loop for the top-level handler; the loop absorbs only fetch errors.
C11_OtherExceptionsPropagate ==
    [][\A w \in Workers :
          (/\ svc[w].pc = "loop"
           /\ svc'[w].kind = svc[w].kind
           /\ CaughtInLoop(svc'[w]) > CaughtInLoop(svc[w]))
             => svc'[w].pc = "except"]_vars

\* ------------------------------------------------------------------ C12
\* C12: a failing alert manager call does not reach the orchestration: the
\* step that calls alert_manager.check_all_rules after the Stats are saved
\* neither enters the top-level handler nor changes the status or the error
\* counter of the run.
C12_AlertFailureContained ==
    [][\A w \in Workers :
          (svc[w].pc = "rules" /\ svc'[w] # svc[w])
             => /\ svc'[w].pc = "finally"
                /\ svc'[w].status = svc[w].status
                /\ svc'[w].errors = svc[w].errors
                /\ task'.status = task.status]_vars

\* ------------------------------------------------------------------ C13
\* C13: when a run reaches its finally block, on whatever path, the Stats row
\* of the task exists and holds the counters of that run.
C13_StatsFinalizedOnExit ==
    \A w \in Workers :
        svc[w].pc = "finally" =>
            /\ stats_db.exists
            /\ stats_db.total_requests = svc[w].pages_visited
            /\ stats_db.failed_requests = svc[w].errors
            /\ stats_db.captcha_detections = svc[w].captcha_detections

\* ------------------------------------------------------------------ C14
\* C14: when a run has returned, the driver session it acquired has been
\* released; a session is fetched from only while it is open.
C14_SessionReleased ==
    \A w \in Workers :
        /\ svc[w].pc = "idle" => svc[w].session # "open"
        /\ svc[w].pc = "loop" => svc[w].session = "open"

\* ------------------------------------------------------------------ C15
\* C15: while check_all_rules is called for the same task id again and
\* again, with no call for another task in between, a rule's action is
\* called at most once: a rule that has fired for the task does not fire
\* again and sends no second alert.
C15_NoRefireForSameTask ==
    \A r \in RuleNames : engine.streak[r] <= 1

\* A rule fired for a task, and the next call for the same task found its
\* condition true and did not call its action.
C15_Witness ==
    \E r \in RuleNames :
        /\ engine.suppressed[r]
        /\ engine.streak[r] = 1
        /\ engine.alerts[r][engine.last_task] = 1

\* ------------------------------------------------------------------ C18
\* C18: over any sequence of check_all_rules calls on any tasks, a rule
\* sends at most one alert for a task id, also when another task was
\* evaluated between two evaluations of that task.
C18_OncePerTask ==
    \A r \in RuleNames : \A id \in RuleTaskIds : engine.alerts[r][id] <= 1

\* ------------------------------------------------------------------ C16
\* A run that is over and was clean: the driver was built, max_pages pages
\* were loaded, no fetch failed, nothing was counted as an error and no
\* challenge was detected.
CleanRunOver(s) ==
    /\ s.pc = "finally"
    /\ s.driver = "open"
    /\ s.max_pages > 0
    /\ s.pages_visited = s.max_pages
    /\ Fetches(s) = s.pages_visited
    /\ s.errors = 0
    /\ s.captcha_detections = 0

\* C16: a run with no challenge and no failed fetch, whose pages keep
\* yielding unvisited links, records exactly max_pages PageVisitEvents and
\* marks the task COMPLETED.
C16_CleanRunCompletes ==
    \A w \in Workers :
        CleanRunOver(svc[w]) =>
            /\ svc[w].page_events = svc[w].max_pages
            /\ svc[w].status = "COMPLETED"

\* ------------------------------------------------------------------ C17
\* C17: under any interleaving of start_monitoring, update_task_status,
\* stop_monitoring and reads by several threads, every operation completes
\* without an error, update_task_status never acts on an entry that a
\* concurrent stop_monitoring removed, and a read returns the entry or
\* 'not monitored'.  (The table is a dict, so it holds at most one entry
\* per task id by construction.)
C17_MonitorOperationsSafe ==
    \A th \in MonitorThreads :
        /\ ~threads[th].error
        /\ ~threads[th].stale
        /\ threads[th].read \in {NULL, "entry", "not monitored"}

\* ------------------------------------------------------------------ C19
\* C19: in the Stats of a finished run, total_requests counts one per
\* page-visit attempt, successful or failed; failed_requests is the number
\* of attempts that failed and successful_requests the number of attempts
\* that loaded the page.
C19_RequestsCountAttempts ==
    \A w \in Workers :
        (svc[w].pc = "finally" /\ svc[w].status \in {"COMPLETED", "CAPTCHA_DETECTED"})
            => /\ stats_db.total_requests = Fetches(svc[w])
               /\ stats_db.failed_requests = Fetches(svc[w]) - svc[w].pages_visited
               /\ stats_db.successful_requests = svc[w].pages_visited

\* ------------------------------------------------------------------ C20
\* C20: the alert rules are evaluated (alert_manager.check_all_rules) after
\* every visited page, inside the loop, so whenever a run is at the call the
\* task it passes is still RUNNING and the 'stuck' rule can match.
C20_RulesSeeRunningTask ==
    \A w \in Workers : svc[w].pc = "rules" => svc[w].status = "RUNNING"

\* ------------------------------------------------------------------ C21
\* C21: the confidence detect_captcha reports, and the confidence of every
\* type, lies in [0,1] for any snapshot, also when more frames match than
\* the type has frame patterns.
C21_ConfidenceInUnitRange ==
    scorer.called =>
        /\ RatGeq(scorer.detection_result.confidence, <<0, 1>>)
        /\ RatGeq(<<1, 1>>, scorer.detection_result.confidence)
        /\ \A t \in TypeNames :
              LET c == _calculate_confidence(detection_patterns[t],
                                             scorer.signals[t])
              IN  RatGeq(c, <<0, 1>>) /\ RatGeq(<<1, 1>>, c)

\* ------------------------------------------------------------------ C22
\* The confidence of the n-th type on the scorer's page.
TypeScore(n) ==
    _calculate_confidence(detection_patterns[CaptchaTypes[n]],
                          scorer.signals[CaptchaTypes[n]])

\* The index of the first type, in declaration order, whose confidence is
\* the maximum over all types.
FirstMaximal ==
    CHOOSE n \in 1 .. Len(CaptchaTypes) :
        /\ \A k \in 1 .. Len(CaptchaTypes) : RatGeq(TypeScore(n), TypeScore(k))
        /\ \A k \in 1 .. (n - 1) : RatGt(TypeScore(n), TypeScore(k))

\* C22: detect_captcha reports the first type in declaration order whose
\* score equals the maximum over all types, with that maximum as the
\* confidence.
C22_FirstMaximalTypeReported ==
    scorer.called =>
        /\ scorer.detection_result.type = CaptchaTypes[FirstMaximal]
        /\ RatEq(scorer.detection_result.confidence, TypeScore(FirstMaximal))

\* ------------------------------------------------------------------ C23
\* C23: pushing a URL that was already pushed in this run is a no-op: the
\* pending entries of urls_to_visit are pairwise distinct and none of them
\* is a URL already popped (visited_urls).
C23_PendingDistinctAndNew ==
    \A w \in Workers :
        LET q == svc[w].urls_to_visit
        IN  /\ \A i, j \in 1 .. Len(q) : q[i] = q[j] => i = j
            /\ \A i \in 1 .. Len(q) : q[i] \notin svc[w].visited_urls

\* ------------------------------------------------------------------ C24
\* C24: every URL that the append loop added to urls_to_visit has the
\* domain of the task's start URL, no path extension of the skip list (also
\* when a query string follows the path) and none of the skip patterns; a
\* link failing one of these is dropped.
C24_PushedLinksFiltered ==
    \A i \in 1 .. Len(frontier.urls_to_visit) :
        LET url == frontier.urls_to_visit[i]
        IN  /\ url.netloc = SitePage(0).netloc
            /\ url.ext \notin skip_extensions
            /\ url.scheme \notin skip_patterns
            /\ url.fragment = ""

\* ------------------------------------------------------------------ C26
\* C26: urls_to_visit never holds more than 100 entries, and an append loop
\* that starts with 100 pending entries leaves the queue unchanged.
C26_QueueBounded ==
    [][/\ Len(frontier'.urls_to_visit) <= QueueLimit
       /\ (/\ Len(frontier.urls_to_visit) = QueueLimit
           /\ Len(frontier'.urls_to_visit) >= QueueLimit)
              => frontier'.urls_to_visit = frontier.urls_to_visit]_vars

\* The append loop filled the queue to 100 entries and dropped an unvisited
\* link that arrived after that.
C26_Witness ==
    /\ frontier.dropped
    /\ Len(frontier.urls_to_visit) = QueueLimit

\* ------------------------------------------------------------------ C25
\* C25: between any two consecutive page fetches (driver.get) of a run the
\* run calls time.sleep(delay_between_requests) at least once, also when
\* the earlier fetch failed or its page event could not be recorded.
C25_SleepBetweenFetches ==
    \A w \in Workers : ~svc[w].unpaced

\* ------------------------------------------------------------------ C28
\* C28: after any sequence of runs, challenge halts, mark-solved actions
\* and restarts, whenever no run is executing,
\* Stats.captcha_solves <= Stats.captcha_detections, so captcha_solve_rate
\* is within [0,100].
C28_SolvesWithinDetections ==
    (\A w \in Workers : svc[w].pc = "idle")
        => stats_db.captcha_solves <= stats_db.captcha_detections

\* ------------------------------------------------------------------ C29
\* C29: across any sequence of run, pause, resume, mark-solved, restart and
\* cancel, a task that is PENDING or RUNNING has finished_at unset and a
\* task that is COMPLETED, FAILED, CANCELLED or CAPTCHA_DETECTED has
\* finished_at set.
C29_FinishedAtMatchesStatus ==
    /\ task.status \in {"PENDING", "RUNNING"} => task.finished_at = NULL
    /\ task.status \in {"COMPLETED", "FAILED", "CANCELLED", "CAPTCHA_DETECTED"}
          => task.finished_at # NULL

ShowsAllOf(t) ==
    /\ scorer.signals[t].selectors = detection_patterns[t].selectors
    /\ scorer.signals[t].text = detection_patterns[t].text_patterns
    /\ scorer.signals[t].iframes >= detection_patterns[t].iframe_patterns
    /\ \A u \in TypeNames \ {t} : scorer.signals[u] = NoSignals

\* C30: every declared challenge type is detectable: on a page showing all
\* the signals of a type, detect_captcha reports that type with
\* detected = TRUE (the type's maximum attainable score reaches 0.7).
C30_EveryTypeDetectable ==
    \A t \in TypeNames :
        (scorer.called /\ ShowsAllOf(t))
            => /\ scorer.detection_result.detected
               /\ scorer.detection_result.type = t

====
